---- MODULE Spec2Model ----
(***************************************************************************)
(* Model of the Metronome class (audio/Metronome.js): the lookahead beat   *)
(* scheduler, the delayed tick dispatch and start/stop/dispose.            *)
(*                                                                         *)
(* Time is counted in milliseconds.  The audio clock                       *)
(* (audioContext.currentTime) and the wall clock (performance.now and the  *)
(* timers of the event loop) advance together, one polling interval at a   *)
(* step, while the audio context is running; a closed context freezes the  *)
(* audio clock.  60 / tempo seconds is 60000 \div tempo milliseconds,      *)
(* which is exact for every tempo the model uses.                          *)
(*                                                                         *)
(* The event loop is modelled by its two guarantees: a timeout never fires *)
(* before its delay has elapsed, and timeouts fire in deadline order.      *)
(* Both the interval callback and the timeouts may run late.               *)
(*                                                                         *)
(* The constructor does not clamp options.tempo.  A metronome built with a *)
(* tempo far above the range arms dozens of timeouts per pass, so such a   *)
(* metronome is followed from a construction late in the time horizon.     *)
(***************************************************************************)
EXTENDS Integers, Sequences, FiniteSets

\* ------------------------------------------------------------------ bounds
MaxTime == 400
MaxCalls == 3
ClockStep == 50
LateConstruction == 300
HitLead == 75
MaxBeatsAround == 2
MaxOffset == 8
MaxFrames == 1

\* ------------------------------------------------------- program constants
hitLineX == 80
InitialMarkerSpeed == 2
UiTempo == 120
UiMinTempo == 40
UiMaxTempo == 240
AppTempo == 120
AppTimeSignature == 4
startNote == 36
numKeys == 49
offScreen == 30
fullOpacity == 100
fadePerFrame == 1
lookahead == 25
scheduleAheadTime == 100
DefaultTempo == 120
DefaultTimeSignature == 4
MinTempo == 30
MaxTempo == 300
MaxScheduledTicks == 20

\* ------------------------------------------------------------------ inputs
\* options.tempo given to the constructor (0: the option is absent)
TempoOptions == {0, 15000}
\* an options.tempo below zero: the constructor stores it as it is
NegativeTempoOptions == {-60}
\* options.timeSignature given to the constructor (0: the option is absent)
TimeSignatureOptions == {0, 2}
\* options.audioContext: a running context, a closed one, or none
AudioContextOptions == {"running", "closed", "null"}
\* arguments of setTempo
BpmInputs == {10, 300, 1000}
\* arguments of setTimeSignature
BeatsInputs == {2, 3, 4, 6}
\* tempoInput.value when its change handler runs, character by character:
\* a number input holds a number or, when emptied, the empty string
TempoInputValues == {<<"2", "0">>, <<"2", "4", "0">>, <<>>}
\* the values of the options of the time signature select
TimeSignatureValues == {<<"2">>, <<"3">>, <<"4">>, <<"6">>}
\* MIDI note numbers received: one below the keyboard, one on it
MidiNotes == {35, 60}
\* the width resizeCanvas gives the canvas at construction, in pixels
CanvasWidth == 980
\* the widths later resizes give it: narrower, and as narrow as the hit line
ResizedWidths == {530, 80}

VARIABLES
  now,             \* wall clock, ms: performance.now() and the timers' clock
  currentTime,     \* audioContext.currentTime, ms
  audioContext,    \* "running" | "closed" | "null"
  disposed,        \* dispose() has set onTick and onBeatScheduled to null
  tempo,
  timeSignature,
  isPlaying,
  nextTickTime,
  currentBeat,
  scheduledTicks,  \* sequence of timeout handles
  timerID,         \* handle of the interval, 0 for null
  beatStartTime,
  timeouts,        \* the event loop's live timeouts (armed, not fired, not cleared)
  intervals,       \* the event loop's live intervals
  nextHandle,      \* next handle the event loop hands out
  calls,           \* number of API calls made so far
  run,             \* number of start() calls that set isPlaying
  runInfo,         \* what has been observed of the current run
  last,            \* the last step: operation, argument, outcome
  emitted,         \* onBeatScheduled notifications of the last step, in order
  generated,       \* beats handed to _scheduleTick by the last step, in order
  ticked,          \* onTick notifications of the last step
  ui,              \* the fields of MetronomeUI
  app,             \* VisualKeysApp: rhythmAccuracyTracker, activeNotes, status
  frames           \* number of animation frames run so far

vars == <<now, currentTime, audioContext, disposed, tempo, timeSignature,
          isPlaying, nextTickTime, currentBeat, scheduledTicks, timerID,
          beatStartTime, timeouts, intervals, nextHandle, calls, run,
          runInfo, last, emitted, generated, ticked, ui, app, frames>>

metronome == <<tempo, timeSignature, isPlaying, nextTickTime, currentBeat,
               scheduledTicks, timerID, beatStartTime, audioContext, disposed>>

eventLoop == <<timeouts, intervals, nextHandle>>

clocks == <<now, currentTime>>

host == <<ui, app, frames>>

\* ----------------------------------------------------------------- helpers
Max(a, b) == IF a > b THEN a ELSE b

Min(a, b) == IF a < b THEN a ELSE b

\* NaN, the number parseInt returns for a text without digits; it stands
\* below every time, tempo and position of the model
NaN == -1000000

IsNaN(x) == x = NaN

\* a + b, a - b, a < b, Math.max and Math.min of JavaScript numbers: NaN in
\* gives NaN out, and every comparison with NaN is false
Plus(a, b) == IF IsNaN(a) \/ IsNaN(b) THEN NaN ELSE a + b

Minus(a, b) == IF IsNaN(a) \/ IsNaN(b) THEN NaN ELSE a - b

Less(a, b) == ~IsNaN(a) /\ ~IsNaN(b) /\ a < b

MathMax(a, b) == IF IsNaN(a) \/ IsNaN(b) THEN NaN ELSE Max(a, b)

MathMin(a, b) == IF IsNaN(a) \/ IsNaN(b) THEN NaN ELSE Min(a, b)

DigitChars == <<"0", "1", "2", "3", "4", "5", "6", "7", "8", "9">>

IsDigit(c) == \E d \in 1..Len(DigitChars) : DigitChars[d] = c

DigitOf(c) == (CHOOSE d \in 1..Len(DigitChars) : DigitChars[d] = c) - 1

\* the digits parseInt reads: the longest prefix of digits
RECURSIVE LeadingDigits(_)
LeadingDigits(text) ==
  IF text = <<>> \/ ~IsDigit(Head(text)) THEN <<>>
  ELSE <<Head(text)>> \o LeadingDigits(Tail(text))

RECURSIVE DecimalValue(_)
DecimalValue(digits) ==
  IF digits = <<>> THEN 0
  ELSE 10 * DecimalValue(SubSeq(digits, 1, Len(digits) - 1))
         + DigitOf(digits[Len(digits)])

\* parseInt(text, 10) of an unsigned text
ParseInt(text) ==
  IF LeadingDigits(text) = <<>> THEN NaN
  ELSE DecimalValue(LeadingDigits(text))

\* options.x || d
OrDefault(option, d) == IF option = 0 THEN d ELSE option

\* 60 / tempo, in ms
SecondsPerBeat(t) == IF IsNaN(t) THEN NaN ELSE 60000 \div t

\* Math.max(30, Math.min(300, bpm))
ClampTempo(bpm) == MathMax(MinTempo, MathMin(MaxTempo, bpm))

\* faulty variant: the delay comes out too short
RelativeTimeHalved(time, cur) == (time - cur) \div 2

\* time - audioContext.currentTime
RelativeTime(time, cur) == time - cur

\* beatNumber + 1: the 1-based number passed to the callbacks
BeatNumber(beatNumber) == beatNumber + 1

\* faulty variant: the downbeat test made on the 1-based number's value
IsDownbeatOneBased(beatNumber) == beatNumber = 1

\* beatNumber === 0
IsDownbeat(beatNumber) == beatNumber = 0

\* (currentBeat + 1) % timeSignature
NextBeat(beat, ts) == (beat + 1) % ts

\* this.nextTickTime < this.audioContext.currentTime + this.scheduleAheadTime
Behind(next, cur) == Less(next, cur + scheduleAheadTime)

\* the arguments of one onBeatScheduled or onTick call
Note(beatNumber, time) ==
  [beatNumber |-> BeatNumber(beatNumber), isDownbeat |-> IsDownbeat(beatNumber),
   time |-> time]

\* faulty variant: the newest handle is the one discarded
CleanUpDropsNewest(ticks) ==
  IF Len(ticks) > MaxScheduledTicks THEN SubSeq(ticks, 1, Len(ticks) - 1)
  ELSE ticks

\* if (this.scheduledTicks.length > 20) this.scheduledTicks.shift()
CleanUp(ticks) == IF Len(ticks) > MaxScheduledTicks THEN Tail(ticks) ELSE ticks

Range(s) == {s[i] : i \in 1..Len(s)}

NoRun == [delay |-> FALSE, t0 |-> 0, tempo |-> 0, timeSignature |-> 0,
          fixedTempo |-> FALSE, fixedSignature |-> FALSE,
          scheduled |-> 0, lastGenerated |-> -1, lastScheduled |-> -1,
          ticks |-> 0, lastTick |-> -1,
          awaitsBeat |-> "none", awaitsNotification |-> FALSE]

\* what is still observed once a run has ended: whether setTimeSignature
\* has been called and no pass has generated, or notified, a beat since
Ended(info) ==
  [NoRun EXCEPT !.awaitsBeat = info.awaitsBeat,
                !.awaitsNotification = info.awaitsNotification]

\* a number returned to the caller, as a fraction; 0 when nothing is returned
Zero == [num |-> 0, den |-> 1]

Idle == [op |-> "none", arg |-> 0, outcome |-> "ok", value |-> Zero]

\* ------------------------------------------------------------- constructor
\* new MetronomeUI(...): the toggle is unchecked, the visualization shown
NewMetronomeUI ==
  [enabled |-> FALSE, showVisualization |-> TRUE, firstBeat |-> TRUE,
   beatMarkers |-> <<>>, hitMarkers |-> <<>>, width |-> CanvasWidth,
   markerSpeed |-> InitialMarkerSpeed, currentTempo |-> UiTempo,
   secondsPerBeat |-> 60000 \div UiTempo, accuracyMessage |-> ""]

\* new VisualKeysApp(...)
NewVisualKeysApp ==
  [isMetronomeActive |-> FALSE, lastNoteHitTime |-> 0, perfectHits |-> 0,
   goodHits |-> 0, missedHits |-> 0, totalNotes |-> 0, activeNotes |-> {},
   activeKeys |-> {},
   status |-> ""]

\* the clock at construction
ConstructedAt(option) == IF option > MaxTempo THEN LateConstruction ELSE 0

\* new Metronome(options), options.tempo taken from tempoOptions
Constructed(tempoOptions) ==
  /\ \E o \in tempoOptions :
       /\ tempo = OrDefault(o, DefaultTempo)
       /\ now = ConstructedAt(o)
  /\ currentTime = now
  /\ audioContext \in AudioContextOptions
  /\ disposed = FALSE
  /\ timeSignature \in {OrDefault(o, DefaultTimeSignature) : o \in TimeSignatureOptions}
  /\ isPlaying = FALSE
  /\ nextTickTime = 0
  /\ currentBeat = 0
  /\ scheduledTicks = <<>>
  /\ timerID = 0
  /\ beatStartTime = 0
  /\ timeouts = {}
  /\ intervals = {}
  /\ nextHandle = 1
  /\ calls = 0
  /\ run = 0
  /\ runInfo = NoRun
  /\ last = Idle
  /\ emitted = <<>>
  /\ generated = <<>>
  /\ ticked = <<>>
  /\ ui = NewMetronomeUI
  /\ app = NewVisualKeysApp
  /\ frames = 0

Init == Constructed(TempoOptions)

\* --------------------------------------------------------------- bookkeeping
\* a scheduling pass that never returns keeps the thread: no handler, timer
\* or frame runs after it
Responsive == last.outcome # "hang"

\* every API call is counted; it reads no clock and fires no timer itself
Returning(op, arg, outcome, value) ==
  /\ Responsive
  /\ calls < MaxCalls
  /\ calls' = calls + 1
  /\ last' = [op |-> op, arg |-> arg, outcome |-> outcome, value |-> value]
  /\ UNCHANGED clocks
  /\ generated' = <<>>
  /\ ticked' = <<>>

Call(op, arg, outcome) == Returning(op, arg, outcome, Zero)

Flag(b) == IF b THEN 1 ELSE 0

\* ------------------------------------------------------------------- start
\* faulty variant: the closed state is tested after isPlaying is assigned
StartClosedAfterAssigning ==
  /\ isPlaying' = TRUE
  /\ currentBeat' = 0
  /\ UNCHANGED <<tempo, timeSignature, nextTickTime, scheduledTicks, timerID,
                 beatStartTime, audioContext, disposed, eventLoop, run,
                 runInfo>>
  /\ emitted' = <<>>

\* throw new Error('AudioContext is closed. Cannot start metronome.')
StartClosed ==
  /\ UNCHANGED <<metronome, eventLoop, run, runInfo>>
  /\ emitted' = <<>>

\* no audio context: isPlaying and currentBeat are already assigned when
\* this.audioContext.currentTime raises a TypeError
StartWithoutContext ==
  /\ isPlaying' = TRUE
  /\ currentBeat' = 0
  /\ UNCHANGED <<tempo, timeSignature, nextTickTime, scheduledTicks, timerID,
                 beatStartTime, audioContext, disposed, eventLoop>>
  /\ run' = run + 1
  /\ runInfo' = Ended(runInfo)
  /\ emitted' = <<>>

\* faulty variant: the first beat is never delayed
FirstTickTimeImmediate(delayFirstBeat, cur, t) == cur

\* the first nextTickTime of a run
FirstTickTime(delayFirstBeat, cur, t) ==
  IF delayFirstBeat THEN Plus(cur, SecondsPerBeat(t)) ELSE cur

\* faulty variant: start() forgets its notification
StartNotificationsNone(delayFirstBeat, time) == <<>>

\* the notifications start() makes itself
StartNotifications(delayFirstBeat, time) ==
  IF delayFirstBeat
  THEN <<[beatNumber |-> 1, isDownbeat |-> TRUE, time |-> time]>>
  ELSE <<>>

StartStopped(delayFirstBeat) ==
  /\ isPlaying' = TRUE
  /\ currentBeat' = 0
  /\ nextTickTime' = FirstTickTime(delayFirstBeat, currentTime, tempo)
  /\ emitted' = StartNotifications(delayFirstBeat, nextTickTime')
  /\ beatStartTime' = now
  /\ timerID' = nextHandle
  /\ intervals' = intervals \cup {[id |-> nextHandle, due |-> now + lookahead]}
  /\ nextHandle' = nextHandle + 1
  /\ UNCHANGED <<tempo, timeSignature, scheduledTicks, audioContext, disposed,
                 timeouts>>
  /\ run' = run + 1
  /\ runInfo' = [delay |-> delayFirstBeat, t0 |-> currentTime, tempo |-> tempo,
                 timeSignature |-> timeSignature,
                 fixedTempo |-> TRUE, fixedSignature |-> TRUE,
                 scheduled |-> Len(emitted'), lastGenerated |-> -1,
                 lastScheduled |-> -1, ticks |-> 0, lastTick |-> -1,
                 awaitsBeat |-> runInfo.awaitsBeat,
                 awaitsNotification |-> runInfo.awaitsNotification]

\* faulty variant: the isPlaying guard is missing
StartWhilePlayingRestarts == StartStopped(TRUE)

\* if (this.isPlaying) return;
StartWhilePlaying ==
  /\ UNCHANGED <<metronome, eventLoop, run, runInfo>>
  /\ emitted' = <<>>

StartOutcome ==
  IF isPlaying THEN "noop"
  ELSE IF audioContext = "running" THEN "ok" ELSE "throw"

Start(delayFirstBeat) ==
  /\ Call("start", Flag(delayFirstBeat), StartOutcome)
  /\ IF isPlaying THEN StartWhilePlaying
     ELSE IF audioContext = "closed" THEN StartClosed
     ELSE IF audioContext = "null" THEN StartWithoutContext
     ELSE StartStopped(delayFirstBeat)

\* -------------------------------------------------------------------- stop
\* scheduledTicks.forEach((tickId) => { if (tickId) clearTimeout(tickId) })
ClearScheduledTicks(live, ticks) == {t \in live : t.id \notin Range(ticks)}

\* faulty variant: the interval is not cleared
ClearIntervalNone(live, id) == live

\* clearInterval(this.timerID)
ClearInterval(live, id) == {i \in live : i.id # id}

\* faulty variant: the interval is left running
StopEffectKeepsInterval ==
  IF ~isPlaying
  THEN UNCHANGED <<isPlaying, currentBeat, timerID, scheduledTicks, timeouts,
                   intervals, runInfo>>
  ELSE /\ isPlaying' = FALSE
       /\ currentBeat' = 0
       /\ UNCHANGED <<intervals, timerID>>
       /\ timeouts' = ClearScheduledTicks(timeouts, scheduledTicks)
       /\ scheduledTicks' = <<>>
       /\ runInfo' = Ended(runInfo)

StopEffect ==
  IF ~isPlaying
  THEN UNCHANGED <<isPlaying, currentBeat, timerID, scheduledTicks, timeouts,
                   intervals, runInfo>>
  ELSE /\ isPlaying' = FALSE
       /\ currentBeat' = 0
       /\ intervals' = ClearInterval(intervals, timerID)
       /\ timerID' = 0
       /\ timeouts' = ClearScheduledTicks(timeouts, scheduledTicks)
       /\ scheduledTicks' = <<>>
       /\ runInfo' = Ended(runInfo)

Stop ==
  /\ Call("stop", 0, IF isPlaying THEN "ok" ELSE "noop")
  /\ StopEffect
  /\ UNCHANGED <<tempo, timeSignature, nextTickTime, beatStartTime,
                 audioContext, disposed, nextHandle, run>>
  /\ emitted' = <<>>

\* ---------------------------------------------------------------- setTempo
\* faulty variant: the pending nextTickTime is moved to the new beat duration
SetTempoRetroactive(bpm) ==
  /\ Call("setTempo", bpm, "ok")
  /\ tempo' = ClampTempo(bpm)
  /\ nextTickTime' = IF isPlaying
                     THEN nextTickTime - SecondsPerBeat(tempo)
                          + SecondsPerBeat(tempo')
                     ELSE nextTickTime
  /\ runInfo' = [runInfo EXCEPT !.fixedTempo = @ /\ tempo' = tempo]
  /\ UNCHANGED <<timeSignature, isPlaying, currentBeat,
                 scheduledTicks, timerID, beatStartTime, audioContext,
                 disposed, eventLoop, run>>
  /\ emitted' = <<>>

SetTempo(bpm) ==
  /\ Call("setTempo", bpm, "ok")
  /\ tempo' = ClampTempo(bpm)
  /\ runInfo' = [runInfo EXCEPT !.fixedTempo = @ /\ tempo' = tempo]
  /\ UNCHANGED <<timeSignature, isPlaying, nextTickTime, currentBeat,
                 scheduledTicks, timerID, beatStartTime, audioContext,
                 disposed, eventLoop, run>>
  /\ emitted' = <<>>

\* -------------------------------------------------------- setTimeSignature
\* faulty variant: the beat counter is not reset
SetTimeSignatureKeepsBeat(beats) ==
  /\ Call("setTimeSignature", beats, "ok")
  /\ timeSignature' = beats
  /\ currentBeat' = currentBeat % beats
  /\ runInfo' = [runInfo EXCEPT !.fixedSignature = FALSE,
                                !.awaitsBeat = "awaiting",
                                !.awaitsNotification = TRUE]
  /\ UNCHANGED <<tempo, isPlaying, nextTickTime, scheduledTicks, timerID,
                 beatStartTime, audioContext, disposed, eventLoop, run>>
  /\ emitted' = <<>>

\* faulty variant: the measure is restarted by pausing playback
SetTimeSignaturePauses(beats) ==
  /\ Call("setTimeSignature", beats, "ok")
  /\ timeSignature' = beats
  /\ currentBeat' = 0
  /\ isPlaying' = FALSE
  /\ runInfo' = [runInfo EXCEPT !.fixedSignature = FALSE,
                                !.awaitsBeat = "awaiting",
                                !.awaitsNotification = TRUE]
  /\ UNCHANGED <<tempo, nextTickTime, scheduledTicks, timerID,
                 beatStartTime, audioContext, disposed, eventLoop, run>>
  /\ emitted' = <<>>

SetTimeSignature(beats) ==
  /\ Call("setTimeSignature", beats, "ok")
  /\ timeSignature' = beats
  /\ currentBeat' = 0
  /\ runInfo' = [runInfo EXCEPT !.fixedSignature = FALSE,
                                !.awaitsBeat = "awaiting",
                                !.awaitsNotification = TRUE]
  /\ UNCHANGED <<tempo, isPlaying, nextTickTime, scheduledTicks, timerID,
                 beatStartTime, audioContext, disposed, eventLoop, run>>
  /\ emitted' = <<>>

\* ---------------------------------------------------------- getHitAccuracy
\* times are in ms and the beat duration d is a whole number of ms, so a
\* beat position elapsed / d is kept as its numerator elapsed

\* faulty variant: Math.floor in the place of Math.round
RoundDown(elapsedTime, beatDuration) == elapsedTime \div beatDuration

\* Math.round(elapsedTime / beatDuration): the nearest integer, halves up
Round(elapsedTime, beatDuration) ==
  (2 * elapsedTime + beatDuration) \div (2 * beatDuration)

\* faulty variant: Math.abs is missing
AbsSigned(x) == x

\* Math.abs
Abs(x) == IF x < 0 THEN -x ELSE x

\* Math.abs(expectedBeatPosition - nearestBeat), in beats, times beatDuration
DistanceFromBeat(elapsedTime, beatDuration) ==
  Abs(elapsedTime - Round(elapsedTime, beatDuration) * beatDuration)

\* Math.max(0, 1 - distanceFromBeat * 2)
Accuracy(distance, beatDuration) ==
  [num |-> Max(0, Abs(beatDuration) - 2 * distance), den |-> Abs(beatDuration)]

\* NaN as a returned number
NotANumber == [num |-> 0, den |-> 0]

\* what getHitAccuracy(hitTime) returns
GetHitAccuracyValue(hitTime) ==
  IF ~isPlaying THEN Zero
  ELSE IF IsNaN(tempo) THEN NotANumber
  ELSE LET beatDuration == SecondsPerBeat(tempo)
           elapsedTime == hitTime - beatStartTime
       IN Accuracy(DistanceFromBeat(elapsedTime, beatDuration), beatDuration)

\* the hit times asked about: the host passes performance.now(); any other
\* number may be passed, here one before the anchor of the run
HitTimes == {now, beatStartTime - HitLead}

GetHitAccuracy(hitTime) ==
  /\ Returning("getHitAccuracy", hitTime, "ok", GetHitAccuracyValue(hitTime))
  /\ UNCHANGED <<metronome, eventLoop, run, runInfo>>
  /\ emitted' = <<>>

\* ----------------------------------------------------------------- dispose
Dispose ==
  /\ Call("dispose", 0, "ok")
  /\ IF ~isPlaying
     THEN UNCHANGED <<isPlaying, currentBeat, timerID, timeouts, intervals,
                      runInfo>>
     ELSE /\ isPlaying' = FALSE
          /\ currentBeat' = 0
          /\ intervals' = ClearInterval(intervals, timerID)
          /\ timerID' = 0
          /\ timeouts' = ClearScheduledTicks(timeouts, scheduledTicks)
          /\ runInfo' = Ended(runInfo)
  /\ scheduledTicks' = <<>>
  /\ audioContext' = "null"
  /\ disposed' = TRUE
  /\ UNCHANGED <<tempo, timeSignature, nextTickTime, beatStartTime,
                 nextHandle, run>>
  /\ emitted' = <<>>

\* the host closes the audio context: its clock stops
CloseContext ==
  /\ audioContext = "running"
  /\ Call("close", 0, "ok")
  /\ audioContext' = "closed"
  /\ UNCHANGED <<tempo, timeSignature, isPlaying, nextTickTime, currentBeat,
                 scheduledTicks, timerID, beatStartTime, disposed, eventLoop,
                 run, runInfo>>
  /\ emitted' = <<>>

\* -------------------------------------------------------------- _scheduler
\* faulty variant: the delay is not tested
InTheFutureOrPast(relativeTime) == TRUE

\* Only schedule if it's in the future
InTheFuture(relativeTime) == relativeTime > 0

\* _scheduleTick(time, beatNumber) on the loop state s: arms the timeout,
\* records its handle, notifies onBeatScheduled, trims the handle list
ScheduleTick(s, time, beatNumber) ==
  LET relativeTime == RelativeTime(time, currentTime)
      seen == [s EXCEPT !.generated =
                 Append(@, [beatNumber |-> beatNumber, time |-> time])]
  IN IF InTheFuture(relativeTime)
     THEN [seen EXCEPT
             !.timeouts = @ \cup {[id |-> s.nextHandle,
                                   deadline |-> now + relativeTime,
                                   beatNumber |-> beatNumber, time |-> time,
                                   armedAt |-> currentTime, run |-> run]},
             !.nextHandle = @ + 1,
             !.emitted = Append(@, Note(beatNumber, time)),
             !.scheduledTicks = CleanUp(Append(@, s.nextHandle))]
     ELSE seen

\* faulty variant: the notification is made outside the test of the delay
ScheduleTickNotifyAlways(s, time, beatNumber) ==
  LET t == ScheduleTick(s, time, beatNumber)
  IN IF InTheFuture(RelativeTime(time, currentTime)) THEN t
     ELSE [t EXCEPT !.emitted = Append(@, Note(beatNumber, time))]

\* _scheduleTick as the loop calls it
CallScheduleTick(s, time, beatNumber) == ScheduleTick(s, time, beatNumber)

\* faulty variant: the next tick time is taken from the clock, not accumulated
SchedulerStepFromClock(s) ==
  LET t == CallScheduleTick(s, s.nextTickTime, s.currentBeat)
  IN [t EXCEPT !.nextTickTime = currentTime + scheduleAheadTime + SecondsPerBeat(tempo),
               !.currentBeat = NextBeat(@, timeSignature)]

\* one iteration of the while loop of _scheduler
SchedulerStep(s) ==
  LET t == CallScheduleTick(s, s.nextTickTime, s.currentBeat)
  IN [t EXCEPT !.nextTickTime = Plus(@, SecondsPerBeat(tempo)),
               !.currentBeat = NextBeat(@, timeSignature)]

RECURSIVE SchedulerLoop(_)
SchedulerLoop(s) ==
  IF Behind(s.nextTickTime, currentTime)
  THEN SchedulerLoop(SchedulerStep(s))
  ELSE s

LastTime(seq, default) == IF seq = <<>> THEN default ELSE seq[Len(seq)].time

\* the pass that generates the first beat since setTimeSignature marks it
AwaitsBeat(before, beats) ==
  IF beats = <<>> THEN before
  ELSE IF before = "awaiting" THEN "first" ELSE "none"

\* the while loop adds 60 / tempo to nextTickTime on every iteration and
\* nothing else moves its condition: when that is not above zero and the
\* condition holds, it holds on every later iteration
Diverges ==
  /\ Behind(nextTickTime, currentTime)
  /\ ~IsNaN(tempo)
  /\ SecondsPerBeat(tempo) <= 0

\* the pass that never leaves the while loop
SchedulerHangs ==
  /\ last' = [op |-> "scheduler", arg |-> 0, outcome |-> "hang", value |-> Zero]
  /\ emitted' = <<>>
  /\ generated' = <<>>
  /\ ticked' = <<>>
  /\ UNCHANGED <<clocks, metronome, eventLoop, calls, run, runInfo>>

\* the pass that returns
SchedulerReturns ==
  \E i \in intervals :
    /\ now >= i.due
    /\ LET s == SchedulerLoop([nextTickTime |-> nextTickTime,
                               currentBeat |-> currentBeat,
                               scheduledTicks |-> scheduledTicks,
                               timeouts |-> timeouts,
                               nextHandle |-> nextHandle,
                               emitted |-> <<>>,
                               generated |-> <<>>])
       IN /\ nextTickTime' = s.nextTickTime
          /\ currentBeat' = s.currentBeat
          /\ scheduledTicks' = s.scheduledTicks
          /\ timeouts' = s.timeouts
          /\ nextHandle' = s.nextHandle
          /\ emitted' = s.emitted
          /\ generated' = s.generated
          /\ runInfo' = [runInfo EXCEPT
                           !.scheduled = @ + Len(s.emitted),
                           !.lastGenerated = LastTime(s.generated, @),
                           !.lastScheduled = LastTime(s.emitted, @),
                           !.awaitsBeat = AwaitsBeat(@, s.generated),
                           !.awaitsNotification = @ /\ s.emitted = <<>>]
    /\ intervals' = (intervals \ {i}) \cup {[i EXCEPT !.due = now + lookahead]}
    /\ last' = [op |-> "scheduler", arg |-> 0, outcome |-> "ok", value |-> Zero]
    /\ ticked' = <<>>
    /\ UNCHANGED <<clocks, tempo, timeSignature, isPlaying, timerID,
                   beatStartTime, audioContext, disposed, calls, run>>

\* the interval callback; the interval is never early and may be late
Scheduler ==
  /\ Responsive
  /\ \E i \in intervals : now >= i.due
  /\ IF Diverges THEN SchedulerHangs ELSE SchedulerReturns

\* ------------------------------------------------------------ tick timeout
\* the timeout the event loop runs next: the earliest deadline, then the
\* earliest armed
Earliest(live) ==
  {t \in live : \A u \in live :
     t.deadline < u.deadline \/ (t.deadline = u.deadline /\ t.id <= u.id)}

\* the callback armed by _scheduleTick; after dispose() onTick is null and
\* the callback raises before it notifies anyone
Tick ==
  \E t \in Earliest(timeouts) :
    /\ Responsive
    /\ now >= t.deadline
    /\ timeouts' = timeouts \ {t}
    /\ ticked' = IF disposed THEN <<>>
                 ELSE <<[beatNumber |-> BeatNumber(t.beatNumber),
                         isDownbeat |-> IsDownbeat(t.beatNumber),
                         time |-> t.time, firedAt |-> now,
                         armedAt |-> t.armedAt, run |-> t.run,
                         id |-> t.id]>>
    /\ runInfo' = IF ~disposed /\ isPlaying /\ t.run = run
                  THEN [runInfo EXCEPT !.ticks = @ + 1, !.lastTick = t.time]
                  ELSE runInfo
    /\ last' = [op |-> "tick", arg |-> t.id,
                outcome |-> IF disposed THEN "throw" ELSE "ok",
                value |-> Zero]
    /\ emitted' = <<>>
    /\ generated' = <<>>
    /\ UNCHANGED <<clocks, metronome, intervals, nextHandle, calls, run>>

\* ------------------------------------------------------------------- clock
Advance ==
  /\ Responsive
  /\ now + ClockStep <= MaxTime
  /\ now' = now + ClockStep
  /\ currentTime' = IF audioContext = "running"
                    THEN currentTime + ClockStep ELSE currentTime
  /\ last' = [op |-> "advance", arg |-> 0, outcome |-> "ok", value |-> Zero]
  /\ emitted' = <<>>
  /\ generated' = <<>>
  /\ ticked' = <<>>
  /\ UNCHANGED <<metronome, eventLoop, calls, run, runInfo>>

\* ------------------------------------------------------------- MetronomeUI
\* distanceToHitLine / (secondsPerBeat * 60), secondsPerBeat in ms
MarkerSpeed(width, secondsPerBeat) ==
  IF IsNaN(secondsPerBeat) THEN NaN
  ELSE ((width - hitLineX) * 1000) \div (secondsPerBeat * 60)

\* faulty variant: the hit markers are left on the canvas
ResetVisualizationKeepsHits(u, enabled) ==
  [u EXCEPT !.beatMarkers = <<>>,
            !.firstBeat = IF enabled THEN TRUE ELSE @,
            !.markerSpeed = IF enabled
                            THEN MarkerSpeed(u.width, u.secondsPerBeat)
                            ELSE @]

\* resetVisualization(enabled)
ResetVisualization(u, enabled) ==
  [u EXCEPT !.beatMarkers = <<>>,
            !.hitMarkers = <<>>,
            !.firstBeat = IF enabled THEN TRUE ELSE @,
            !.markerSpeed = IF enabled
                            THEN MarkerSpeed(u.width, u.secondsPerBeat)
                            ELSE @]

\* addBeatMarker(beatNumber, isDownbeat); first and scheduledFor are not
\* fields of the marker: they record whether it was the first marker since
\* the reset and the time argument handleBeatScheduled does not pass on
AddBeatMarker(u, beat) ==
  [u EXCEPT !.beatMarkers =
              Append(@, [x |-> IF u.firstBeat THEN hitLineX ELSE u.width,
                         beatNumber |-> beat.beatNumber,
                         isDownbeat |-> beat.isDownbeat,
                         time |-> now,
                         targetTime |-> Plus(now, u.secondsPerBeat),
                         first |-> u.firstBeat,
                         scheduledFor |-> beat.time]),
            !.firstBeat = FALSE]

\* handleBeatScheduled for each onBeatScheduled notification, in order
RECURSIVE AddBeatMarkers(_, _)
AddBeatMarkers(u, beats) ==
  IF beats = <<>> THEN u
  ELSE AddBeatMarkers(AddBeatMarker(u, Head(beats)), Tail(beats))

\* accuracyValue > tenths / 10
Above(accuracyValue, tenths) ==
  10 * accuracyValue.num > tenths * accuracyValue.den

\* displayAccuracy(accuracyValue): the message shown
DisplayAccuracy(accuracyValue) ==
  IF Above(accuracyValue, 9) THEN "perfect"
  ELSE IF Above(accuracyValue, 7) THEN "good"
  ELSE IF Above(accuracyValue, 5) THEN "ok"
  ELSE "poor"

\* registerNoteHit(accuracyValue); color is the fill drawHitMarkers last
\* used for the marker and age the number of frames that have updated it
RegisterNoteHit(u, accuracyValue) ==
  IF ~u.enabled \/ ~u.showVisualization THEN u
  ELSE [u EXCEPT !.hitMarkers = Append(@, [x |-> hitLineX,
                                           accuracy |-> accuracyValue,
                                           opacity |-> fullOpacity,
                                           color |-> "",
                                           age |-> 0]),
                 !.accuracyMessage = DisplayAccuracy(accuracyValue)]

\* ----------------------------------------------------------- VisualKeysApp
endNote == startNote + numKeys - 1

\* faulty variant: a hit that is neither perfect nor good is not counted
TrackHitDropsMissed(a, accuracy) ==
  [a EXCEPT !.lastNoteHitTime = now,
            !.totalNotes = @ + 1,
            !.perfectHits = IF Above(accuracy, 9) THEN @ + 1 ELSE @,
            !.goodHits = IF ~Above(accuracy, 9) /\ Above(accuracy, 7)
                         THEN @ + 1 ELSE @]

\* the rhythm statistics after a scored hit
TrackHit(a, accuracy) ==
  [a EXCEPT !.lastNoteHitTime = now,
            !.totalNotes = @ + 1,
            !.perfectHits = IF Above(accuracy, 9) THEN @ + 1 ELSE @,
            !.goodHits = IF ~Above(accuracy, 9) /\ Above(accuracy, 7)
                         THEN @ + 1 ELSE @,
            !.missedHits = IF ~Above(accuracy, 7) THEN @ + 1 ELSE @]

\* the change handler of the metronome toggle, checked: MetronomeUI sets
\* enabled and resets the visualization, onToggle sets isMetronomeActive and
\* calls start(true); when start raises, updateStatus is not reached
ToggleOn ==
  /\ ~ui.enabled
  /\ Start(TRUE)
  /\ ui' = AddBeatMarkers(ResetVisualization([ui EXCEPT !.enabled = TRUE],
                                             TRUE), emitted')
  /\ app' = [app EXCEPT !.isMetronomeActive = TRUE,
                        !.status = IF last'.outcome = "throw" THEN @
                                   ELSE "started"]
  /\ UNCHANGED frames

\* the change handler of the metronome toggle, unchecked
ToggleOff ==
  /\ ui.enabled
  /\ Stop
  /\ ui' = ResetVisualization([ui EXCEPT !.enabled = FALSE], FALSE)
  /\ app' = [app EXCEPT !.isMetronomeActive = FALSE, !.status = "stopped"]
  /\ UNCHANGED frames

\* handleTempoChange() with the text of the tempo input, and the
\* onTempoChange callback of the app
HandleTempoChange(value) ==
  LET t == MathMin(UiMaxTempo, MathMax(UiMinTempo, ParseInt(value)))
  IN /\ SetTempo(t)
     /\ ui' = [ui EXCEPT !.currentTempo = t,
                         !.secondsPerBeat = SecondsPerBeat(t),
                         !.markerSpeed = MarkerSpeed(ui.width, SecondsPerBeat(t))]
     /\ app' = [app EXCEPT !.status = "tempo"]
     /\ UNCHANGED frames

TempoChange == \E value \in TempoInputValues : HandleTempoChange(value)

\* the change handler of the time signature select, and the
\* onTimeSignatureChange callback of the app
HandleTimeSignatureChange(value) ==
  /\ SetTimeSignature(ParseInt(value))
  /\ app' = [app EXCEPT !.status = "timeSignature"]
  /\ UNCHANGED <<ui, frames>>

TimeSignatureChange ==
  \E value \in TimeSignatureValues : HandleTimeSignatureChange(value)

\* handleMIDINoteOn(midiNote)
HandleMIDINoteOn(midiNote) ==
  LET inRange == midiNote >= startNote /\ midiNote <= endNote
      scored == inRange /\ app.isMetronomeActive
      accuracy == GetHitAccuracyValue(now)
  IN /\ Returning("noteOn", midiNote, IF inRange THEN "ok" ELSE "ignored",
                  IF scored THEN accuracy ELSE Zero)
     /\ ui' = IF scored THEN RegisterNoteHit(ui, accuracy) ELSE ui
     /\ app' = IF ~inRange THEN app
               ELSE [(IF scored THEN TrackHit(app, accuracy) ELSE app)
                       EXCEPT !.activeNotes = @ \cup {midiNote},
                              !.activeKeys = @ \cup {midiNote}]
     /\ UNCHANGED <<metronome, eventLoop, run, runInfo, frames>>
     /\ emitted' = <<>>

NoteOn == \E midiNote \in MidiNotes : HandleMIDINoteOn(midiNote)

\* mousedown on the on-screen key of midiNote: KeyboardUI.handleNoteOn
\* marks the key and calls onNoteOn, which is playNote of the app
HandleNoteOn(midiNote) ==
  /\ midiNote >= startNote /\ midiNote <= endNote
  /\ Returning("mousedown", midiNote, "ok", Zero)
  /\ app' = [app EXCEPT !.activeNotes = @ \cup {midiNote},
                        !.activeKeys = @ \cup {midiNote}]
  /\ UNCHANGED <<ui, frames, metronome, eventLoop, run, runInfo>>
  /\ emitted' = <<>>

MouseDown == \E midiNote \in MidiNotes : HandleNoteOn(midiNote)

\* faulty variant: the key stays lit
StopNoteKeepsKey(a, midiNote) ==
  IF midiNote \in a.activeNotes
  THEN [a EXCEPT !.activeNotes = @ \ {midiNote}]
  ELSE a

\* stopNote(midiNote) of the app, with deactivateKey of the keyboard
StopNote(a, midiNote) ==
  IF midiNote \in a.activeNotes
  THEN [a EXCEPT !.activeNotes = @ \ {midiNote},
                 !.activeKeys = @ \ {midiNote}]
  ELSE a

\* mouseup on the on-screen key of midiNote, or mouseleave of a key that
\* is active: KeyboardUI.handleNoteOff unmarks the key and calls onNoteOff,
\* which is stopNote of the app
HandleNoteOff(midiNote) ==
  /\ midiNote >= startNote /\ midiNote <= endNote
  /\ Returning("mouseup", midiNote, "ok", Zero)
  /\ app' = StopNote([app EXCEPT !.activeKeys = @ \ {midiNote}], midiNote)
  /\ UNCHANGED <<ui, frames, metronome, eventLoop, run, runInfo>>
  /\ emitted' = <<>>

MouseUp == \E midiNote \in MidiNotes : HandleNoteOff(midiNote)

\* handleMIDINoteOff(midiNote)
HandleMIDINoteOff(midiNote) ==
  LET inRange == midiNote >= startNote /\ midiNote <= endNote
  IN /\ Returning("noteOff", midiNote, IF inRange THEN "ok" ELSE "ignored",
                  Zero)
     /\ app' = IF inRange THEN StopNote(app, midiNote) ELSE app
     /\ UNCHANGED <<ui, frames, metronome, eventLoop, run, runInfo>>
     /\ emitted' = <<>>

NoteOff == \E midiNote \in MidiNotes : HandleMIDINoteOff(midiNote)

\* the change handler of the visualization toggle
VisToggle ==
  /\ Returning("visToggle", Flag(~ui.showVisualization), "ok", Zero)
  /\ ui' = [ui EXCEPT !.showVisualization = ~@]
  /\ UNCHANGED <<app, frames, metronome, eventLoop, run, runInfo>>
  /\ emitted' = <<>>

\* resizeCanvas() after the window was resized
ResizeCanvas(width) ==
  /\ Returning("resize", width, "ok", Zero)
  /\ ui' = [ui EXCEPT !.width = width]
  /\ UNCHANGED <<app, frames, metronome, eventLoop, run, runInfo>>
  /\ emitted' = <<>>

Resize == \E width \in ResizedWidths : ResizeCanvas(width)

\* the x updateBeatMarkers gives an interpolated marker
InterpolatedX(width, marker) ==
  IF IsNaN(marker.targetTime) THEN NaN
  ELSE width - ((now - marker.time) * (width - hitLineX))
                 \div (marker.targetTime - marker.time)

OnScreen(marker) == Less(-offScreen, marker.x)

\* updateBeatMarkers()
UpdateBeatMarkers(u) ==
  LET moved == [i \in 1..Len(u.beatMarkers) |->
                  [u.beatMarkers[i] EXCEPT
                     !.x = IF u.firstBeat THEN hitLineX
                           ELSE InterpolatedX(u.width, u.beatMarkers[i])]]
  IN [u EXCEPT !.beatMarkers = SelectSeq(moved, OnScreen)]

\* getAccuracyColor(accuracy)
GetAccuracyColor(accuracy) ==
  IF Above(accuracy, 9) THEN "green"
  ELSE IF Above(accuracy, 7) THEN "yellow"
  ELSE "red"

Visible(marker) == Less(-offScreen, marker.x) /\ marker.opacity > 0

\* faulty variant: the markers do not fade
UpdateHitMarkersNoFade(u) ==
  LET moved == [i \in 1..Len(u.hitMarkers) |->
                  [u.hitMarkers[i] EXCEPT
                     !.x = Minus(@, u.markerSpeed),
                     !.color = GetAccuracyColor(u.hitMarkers[i].accuracy),
                     !.age = @ + 1]]
  IN [u EXCEPT !.hitMarkers = SelectSeq(moved, Visible)]

\* updateHitMarkers(), then drawHitMarkers()
UpdateHitMarkers(u) ==
  LET moved == [i \in 1..Len(u.hitMarkers) |->
                  [u.hitMarkers[i] EXCEPT
                     !.x = Minus(@, u.markerSpeed),
                     !.opacity = Max(0, @ - fadePerFrame),
                     !.color = GetAccuracyColor(u.hitMarkers[i].accuracy),
                     !.age = @ + 1]]
  IN [u EXCEPT !.hitMarkers = SelectSeq(moved, Visible)]

\* renderRhythmVisualization()
RenderRhythmVisualization(u) ==
  IF ~u.showVisualization THEN u
  ELSE UpdateHitMarkers(UpdateBeatMarkers(u))

\* one animation frame: animate() of startAnimation
Animate ==
  /\ Responsive
  /\ ui' = RenderRhythmVisualization(ui)
  /\ last' = [op |-> "frame", arg |-> 0,
              outcome |-> IF ui.showVisualization THEN "ok" ELSE "hidden",
              value |-> Zero]
  /\ emitted' = <<>>
  /\ generated' = <<>>
  /\ ticked' = <<>>
  /\ UNCHANGED <<app, clocks, metronome, eventLoop, calls, run, runInfo>>

\* a frame of the app as it runs
Frame ==
  /\ frames < MaxFrames
  /\ frames' = frames + 1
  /\ Animate

\* a frame with the clock standing still
StillFrame == Animate /\ UNCHANGED frames

\* a scheduling pass of the app's metronome: handleBeatScheduled adds a
\* marker for every notification
AppScheduler ==
  /\ Scheduler
  /\ ui' = AddBeatMarkers(ui, emitted')
  /\ UNCHANGED <<app, frames>>

\* the app constructs its metronome with tempo 120 and time signature 4 on
\* the audio context of the synth engine
AppInit ==
  /\ Init
  /\ tempo = AppTempo
  /\ timeSignature = AppTimeSignature

\* ----------------------------------------------------------- specification
\* the metronome on its own: nothing of the host changes
StartDelayed == Start(TRUE) /\ UNCHANGED host

StartImmediately == Start(FALSE) /\ UNCHANGED host

StopCall == Stop /\ UNCHANGED host

SetTempoCall == (\E bpm \in BpmInputs : SetTempo(bpm)) /\ UNCHANGED host

SetTimeSignatureCall ==
  (\E beats \in BeatsInputs : SetTimeSignature(beats)) /\ UNCHANGED host

GetHitAccuracyCall ==
  (\E hitTime \in HitTimes : GetHitAccuracy(hitTime)) /\ UNCHANGED host

DisposeCall == Dispose /\ UNCHANGED host

ContextCloses == CloseContext /\ UNCHANGED host

SchedulerPass == Scheduler /\ UNCHANGED host

TickFires == Tick /\ UNCHANGED host

ClockAdvances == Advance /\ UNCHANGED host

Next ==
  \/ StartDelayed
  \/ StartImmediately
  \/ StopCall
  \/ SetTempoCall
  \/ SetTimeSignatureCall
  \/ GetHitAccuracyCall
  \/ DisposeCall
  \/ ContextCloses
  \/ SchedulerPass
  \/ TickFires
  \/ ClockAdvances

Spec == Init /\ [][Next]_vars

\* the metronome constructed with a tempo below zero
NegativeTempoInit == Constructed(NegativeTempoOptions)

NegativeTempoSpec == NegativeTempoInit /\ [][Next]_vars

\* the metronome driven by the app and its MetronomeUI as the clock runs
AppNext ==
  \/ ToggleOn
  \/ ToggleOff
  \/ TempoChange
  \/ NoteOn
  \/ VisToggle
  \/ Frame
  \/ AppScheduler
  \/ ContextCloses
  \/ TickFires
  \/ ClockAdvances

AppSpec == AppInit /\ [][AppNext]_vars

\* the app played along its metronome as the clock runs: the toggle, the
\* tempo input and the MIDI notes, with nothing drawn
PlayNext ==
  \/ ToggleOn
  \/ ToggleOff
  \/ TempoChange
  \/ NoteOn
  \/ NoteOff
  \/ AppScheduler
  \/ TickFires
  \/ ClockAdvances

PlaySpec == AppInit /\ [][PlayNext]_vars

\* the handlers and the animation frames at one instant of the clock, with
\* the animation loop never starved: requestAnimationFrame keeps calling
UiNext ==
  \/ ToggleOn
  \/ ToggleOff
  \/ TempoChange
  \/ TimeSignatureChange
  \/ NoteOn
  \/ NoteOff
  \/ MouseDown
  \/ MouseUp
  \/ VisToggle
  \/ Resize
  \/ StillFrame

UiSpec == AppInit /\ [][UiNext]_vars /\ WF_vars(StillFrame)

\* ======================================================================
\* Properties
\* ======================================================================

\* the tick of the last step belongs to the run that is playing
CurrentRunTick ==
  /\ ticked # <<>>
  /\ isPlaying
  /\ ticked[1].run = run

\* C1: once stop() has returned, no onTick fires for a beat whose timeout
\* was armed before that stop(): every onTick delivered belongs to the run
\* that is playing at that moment.
C1_NoTickAfterStop == ticked # <<>> => (isPlaying /\ ticked[1].run = run)

\* the k-th notification of a delayed run: beat k of the cycle, k beats
\* after the start
ExpectedOf(info, k) ==
  [beatNumber |-> ((k - 1) % info.timeSignature) + 1,
   isDownbeat |-> (k - 1) % info.timeSignature = 0,
   time |-> info.t0 + k * (60000 \div info.tempo)]

ExpectedNotification(k) == ExpectedOf(runInfo, k)

SteadyDelayedRun ==
  /\ isPlaying
  /\ runInfo.delay
  /\ runInfo.fixedTempo
  /\ runInfo.fixedSignature

\* C2 (as stated): in a run started with delayFirstBeat = true at t0 and a
\* constant tempo T, the k-th onBeatScheduled notification is
\* (k, k = 1, t0 + k * 60/T), beat numbers taken within the measure: the
\* notification after the immediate one is beat 2 and no pair repeats.
\* Stated for the tempos of the data model, 30 to 300.
C2_NotificationsInSequence ==
  (SteadyDelayedRun /\ tempo \in MinTempo..MaxTempo) =>
    \A i \in 1..Len(emitted) :
      emitted[i] = ExpectedNotification(runInfo.scheduled - Len(emitted) + i)

\* C2 (amended): start() notifies (1, true, t0 + 60/T); every notification a
\* scheduling pass makes afterwards is the one expected for some beat k >= 1
\* of the run, and these k strictly increase from one pass notification to
\* the next.  The pass that arms beat 1 repeats (1, true, t0 + 60/T).
C2_NotificationsOfDelayedRun ==
  [][ /\ (last'.op = "start" /\ last'.outcome = "ok" /\ last'.arg = 1)
           => emitted' = <<ExpectedOf(runInfo', 1)>>
      /\ (last'.op = "scheduler" /\ SteadyDelayedRun')
           => \A i \in 1..Len(emitted') :
                LET e == emitted'[i]
                    before == IF i = 1 THEN runInfo.lastScheduled
                              ELSE emitted'[i - 1].time
                    k == (e.time - runInfo.t0) \div (60000 \div runInfo.tempo)
                IN /\ k >= 1
                   /\ e = ExpectedOf(runInfo', k)
                   /\ e.time > before ]_vars

\* C2 witness: the pass of a delayed run has just repeated the notification
\* of beat 1 that start() made
C2_Witness ==
  /\ last.op = "scheduler"
  /\ SteadyDelayedRun
  /\ emitted # <<>>
  /\ emitted[1] = ExpectedNotification(1)
  /\ runInfo.scheduled = Len(emitted) + 1

\* C3: start(delayFirstBeat) while Stopped with a usable clock: Running,
\* currentBeat 0, the interval armed; with the delay nextTickTime is
\* now + 60/tempo and exactly onBeatScheduled(1, true, nextTickTime) is
\* emitted, without it nextTickTime is now and nothing is emitted.
C3_StartFromStopped ==
  [][ (last'.op = "start" /\ ~isPlaying /\ audioContext = "running")
        => /\ isPlaying'
           /\ currentBeat' = 0
           /\ timerID' # 0
           /\ intervals' = intervals \cup {[id |-> timerID', due |-> now + lookahead]}
           /\ Cardinality(intervals') = Cardinality(intervals) + 1
           /\ IF last'.arg = 1
              THEN /\ nextTickTime' = currentTime + (60000 \div tempo)
                   /\ emitted' = <<[beatNumber |-> 1, isDownbeat |-> TRUE,
                                    time |-> nextTickTime']>>
              ELSE /\ nextTickTime' = currentTime
                   /\ emitted' = <<>> ]_vars

\* C3 witness: a delayed start from Stopped has just succeeded
C3_Witness ==
  /\ last.op = "start"
  /\ last.outcome = "ok"
  /\ last.arg = 1
  /\ Len(emitted) = 1
  /\ nextTickTime > currentTime

\* C4: with no setTimeSignature during the run, the ticks of a run carry the
\* beat numbers 1, 2, ..., N, 1, 2, ...: the k-th tick delivered is beat
\* ((k - 1) mod N) + 1, so the first one is the downbeat.  Stated for the
\* tempos of the data model, 30 to 300, held since the start.
C4_TicksCycleFromDownbeat ==
  (/\ CurrentRunTick
   /\ runInfo.fixedSignature
   /\ runInfo.fixedTempo
   /\ tempo \in MinTempo..MaxTempo)
    => ticked[1].beatNumber = ((runInfo.ticks - 1) % timeSignature) + 1

AllNotifications ==
  {[beatNumber |-> emitted[i].beatNumber, isDownbeat |-> emitted[i].isDownbeat]
     : i \in 1..Len(emitted)}
  \cup {[beatNumber |-> ticked[i].beatNumber, isDownbeat |-> ticked[i].isDownbeat]
          : i \in 1..Len(ticked)}

\* C5: every onBeatScheduled and onTick notification carries a 1-based beat
\* number, and isDownbeat exactly when the beat number is 1.
C5_DownbeatIffBeatOne ==
  \A n \in AllNotifications :
    /\ n.beatNumber >= 1
    /\ n.isDownbeat <=> (n.beatNumber = 1)

\* C5 witness: a downbeat and another beat have both been notified
C5_Witness ==
  /\ \E n \in AllNotifications : n.isDownbeat
  /\ \E n \in AllNotifications : ~n.isDownbeat

\* C6: in a run at a fixed tempo T within [30, 300], consecutive beats
\* generated by the scheduling passes are exactly 60/T apart, in increasing
\* order, within a pass and from one pass to the next.
C6_BeatsOneIntervalApart ==
  [][ (/\ last'.op = "scheduler"
       /\ runInfo.fixedTempo
       /\ tempo \in MinTempo..MaxTempo)
        => \A i \in 1..Len(generated') :
             LET before == IF i = 1 THEN runInfo.lastGenerated
                           ELSE generated'[i - 1].time
             IN before # -1 =>
                  /\ generated'[i].time > before
                  /\ generated'[i].time - before = 60000 \div tempo ]_vars

\* C6 witness: a pass at a fixed in-range tempo has generated a beat that
\* follows the beat an earlier pass generated
C6_Witness ==
  /\ last.op = "scheduler"
  /\ runInfo.fixedTempo
  /\ tempo \in MinTempo..MaxTempo
  /\ generated # <<>>
  /\ generated[1].time > runInfo.t0 + (60000 \div tempo)

\* C7: onTick never fires before the clock has reached the beat's target
\* time, and it never overtakes a tick of its run that was generated
\* earlier: what is still pending of that run was armed later, for a later
\* target time.
C7_NeverEarlyNeverReordered ==
  ticked # <<>> =>
    /\ ticked[1].firedAt >= ticked[1].time
    /\ audioContext = "running" => currentTime >= ticked[1].time
    /\ \A u \in timeouts :
         u.run = ticked[1].run => (u.id > ticked[1].id /\ u.time > ticked[1].time)

\* C7 witness: a tick has fired late while later ticks of its run are pending
C7_Witness ==
  /\ ticked # <<>>
  /\ ticked[1].firedAt > ticked[1].time
  /\ \E u \in timeouts : u.run = ticked[1].run

\* C8: a beat whose delay is not positive when it is handed to
\* _scheduleTick is dropped: no timeout is armed for it, onTick is never
\* invoked for it, the scheduler moves past it and the pass ends normally.
C8_LateBeatDropped ==
  /\ \A u \in timeouts : u.time > u.armedAt
  /\ \A i \in 1..Len(ticked) : ticked[i].time > ticked[i].armedAt
  /\ last.op = "scheduler" =>
       /\ last.outcome = "ok"
       /\ \A i \in 1..Len(generated) :
            generated[i].time <= currentTime =>
              /\ nextTickTime > generated[i].time
              /\ ~\E u \in timeouts :
                    u.run = run /\ u.time = generated[i].time

\* C8 witness: a pass has just dropped a beat
C8_Witness ==
  /\ last.op = "scheduler"
  /\ \E i \in 1..Len(generated) : generated[i].time <= currentTime

\* C9 (as stated): every beat generated by a pass is notified through
\* onBeatScheduled within that pass, dropped beats included.
C9_EveryBeatNotified ==
  last.op = "scheduler" =>
    /\ Len(emitted) = Len(generated)
    /\ \A i \in 1..Len(emitted) :
         emitted[i] = [beatNumber |-> generated[i].beatNumber + 1,
                       isDownbeat |-> generated[i].beatNumber = 0,
                       time |-> generated[i].time]

\* C9 (amended): the notifications of a pass are, in generation order, the
\* beats it generated whose delay was positive; a beat whose delay was not
\* positive is not notified.
C9_FutureBeatsNotified ==
  last.op = "scheduler" =>
    LET future == SelectSeq(generated, LAMBDA g : g.time > currentTime)
    IN /\ Len(emitted) = Len(future)
       /\ \A i \in 1..Len(emitted) :
            emitted[i] = [beatNumber |-> future[i].beatNumber + 1,
                          isDownbeat |-> future[i].beatNumber = 0,
                          time |-> future[i].time]

\* C9 witness: a pass has dropped one beat and notified another
C9_Witness ==
  /\ last.op = "scheduler"
  /\ emitted # <<>>
  /\ Len(emitted) < Len(generated)

\* C10: start() while Running changes nothing: nextTickTime, currentBeat,
\* beatStartTime, the pending handles, the interval and its timer are as
\* before, and no onBeatScheduled notification is emitted.
C10_StartWhileRunningNoOp ==
  [][ (last'.op = "start" /\ isPlaying)
        => /\ UNCHANGED <<isPlaying, nextTickTime, currentBeat, beatStartTime,
                          scheduledTicks, timerID, timeouts, intervals,
                          nextHandle, tempo, timeSignature>>
           /\ emitted' = <<>> ]_vars

\* C10 witness: start() has just returned early on a running metronome with
\* ticks pending
C10_Witness ==
  /\ last.op = "start"
  /\ last.outcome = "noop"
  /\ timerID # 0
  /\ timeouts # {}

\* C11: stop() called while Running succeeds and leaves a clean Stopped
\* state (not playing, currentBeat 0, no interval, no recorded handle),
\* also after a start() that failed; stop() called while Stopped changes
\* nothing and does not raise.
C11_StopLeavesCleanState ==
  [][last'.op = "stop" =>
       IF isPlaying
       THEN /\ last'.outcome = "ok"
            /\ ~isPlaying'
            /\ currentBeat' = 0
            /\ timerID' = 0
            /\ intervals' = {}
            /\ scheduledTicks' = <<>>
       ELSE /\ last'.outcome = "noop"
            /\ UNCHANGED <<metronome, eventLoop>>]_vars

\* a stop() that has just ended the Running state a failed start() left
C11_Witness ==
  /\ last.op = "stop"
  /\ last.outcome = "ok"
  /\ audioContext = "null"
  /\ ~disposed
  /\ ~isPlaying

C13_FailedStartLeavesStopped ==
  (last.op = "start" /\ last.outcome = "throw") => ~isPlaying

\* C15: the stored tempo lies in [30, 300] in every reachable state,
\* whatever tempo option the metronome was constructed with.
C15_TempoInRange == tempo \in MinTempo..MaxTempo

\* C16: setTempo(bpm) is not retroactive: it leaves isPlaying, nextTickTime,
\* currentBeat and every armed tick unchanged, and every increment of
\* nextTickTime a pass computes afterwards is 60/tempo of the tempo stored
\* at that pass; the first beat of the pass keeps the time fixed before.
C16_SetTempoNotRetroactive ==
  [][/\ last'.op = "setTempo" =>
          UNCHANGED <<isPlaying, nextTickTime, currentBeat, scheduledTicks,
                      timerID, beatStartTime, timeouts, intervals>>
     /\ (last'.op = "scheduler" /\ generated' # <<>>) =>
          /\ generated'[1].time = nextTickTime
          /\ \A i \in 1..(Len(generated') - 1) :
               generated'[i + 1].time - generated'[i].time = 60000 \div tempo
          /\ nextTickTime' =
               generated'[Len(generated')].time + 60000 \div tempo]_vars

\* a pass has generated a beat in a run whose tempo was changed by setTempo
C16_Witness ==
  /\ last.op = "scheduler"
  /\ generated # <<>>
  /\ isPlaying
  /\ ~runInfo.fixedTempo
  /\ runInfo.tempo # tempo
  /\ nextTickTime = generated[Len(generated)].time + 60000 \div tempo

\* C17 as stated: after setTimeSignature(k), the next onBeatScheduled
\* notification a scheduling pass produces is (1, true, .); shown in a run
\* started with the delayed first beat and a tempo in [30, 300].
C17_NextNotificationIsDownbeat ==
  [][(/\ last'.op = "scheduler"
      /\ runInfo.awaitsNotification
      /\ runInfo.delay
      /\ tempo \in MinTempo..MaxTempo
      /\ emitted' # <<>>) =>
       (emitted'[1].beatNumber = 1 /\ emitted'[1].isDownbeat)]_vars

\* C17 amended: setTimeSignature(k) leaves isPlaying as it is and the next
\* beat a scheduling pass generates has index 0; that beat is notified as
\* (1, true, t) when its delay is positive and is not notified otherwise.
C17_NextBeatIsDownbeat ==
  [][/\ last'.op = "setTimeSignature" => isPlaying' = isPlaying
     /\ (last'.op = "scheduler" /\ runInfo.awaitsBeat = "awaiting"
           /\ generated' # <<>>) =>
          LET first == generated'[1]
          IN /\ first.beatNumber = 0
             /\ IF first.time > currentTime
                THEN /\ emitted' # <<>>
                     /\ emitted'[1] = [beatNumber |-> 1, isDownbeat |-> TRUE,
                                       time |-> first.time]
                ELSE \A i \in 1..Len(emitted') :
                       emitted'[i].time # first.time]_vars

\* a pass of a run that was playing another beat has generated, and
\* notified as the downbeat, the first beat since setTimeSignature
C17_Witness ==
  /\ last.op = "scheduler"
  /\ runInfo.awaitsBeat = "first"
  /\ runInfo.scheduled > Len(emitted) + 1
  /\ emitted # <<>>
  /\ emitted[1].time = generated[1].time
  /\ emitted[1].isDownbeat

\* C18: isPlaying has two values; only start() sets it and only stop() and
\* dispose() clear it: setTempo, setTimeSignature, scheduling passes and
\* tick firings leave it as it is.
C18_PlaybackStateTransitions ==
  [][/\ isPlaying' \in BOOLEAN
     /\ (~isPlaying /\ isPlaying') => last'.op = "start"
     /\ (isPlaying /\ ~isPlaying') => last'.op \in {"stop", "dispose"}]_vars

\* setTimeSignature has just been called on a running metronome
C18_Witness ==
  /\ last.op = "setTimeSignature"
  /\ isPlaying
  /\ timerID # 0

\* the fractions a and b are the same number
SameNumber(a, b) == a.num * b.den = b.num * a.den

\* C19: getHitAccuracy(hitTime) returns 0 while Stopped; while Running it
\* returns max(0, 1 - 2*|p - n|) where p = (hitTime - beatStartTime) /
\* (60/tempo) and n is p rounded half up (n - 1/2 <= p < n + 1/2), a value
\* within [0, 1]; the call changes no field of the metronome and no timer.
C19_HitAccuracyFormula ==
  [][last'.op = "getHitAccuracy" =>
       /\ UNCHANGED <<metronome, eventLoop, clocks>>
       /\ 0 <= last'.value.num
       /\ last'.value.num <= last'.value.den
       /\ IF ~isPlaying THEN last'.value.num = 0
          ELSE LET d == 60000 \div tempo
                   e == last'.arg - beatStartTime
               IN \E n \in -MaxTime..MaxTime :
                    /\ (2 * n - 1) * d <= 2 * e
                    /\ 2 * e < (2 * n + 1) * d
                    /\ LET twice == IF e >= n * d THEN 2 * (e - n * d)
                                    ELSE 2 * (n * d - e)
                       IN SameNumber(last'.value,
                                     [num |-> IF twice > d THEN 0 ELSE d - twice,
                                      den |-> d])]_vars

\* the hit 0.05 s after the anchor with a 0.5 s beat has been scored 0.8
C19_Witness ==
  /\ last.op = "getHitAccuracy"
  /\ isPlaying
  /\ tempo = 120
  /\ last.arg = beatStartTime + 50
  /\ SameNumber(last.value, [num |-> 8, den |-> 10])

\* beats around the anchor and offsets from a beat, in ms
BeatsAround == -MaxBeatsAround..MaxBeatsAround

Offsets(d) == (0..MaxOffset) \cup {d \div 4, d \div 3, d \div 2, d}

\* C20: while Running with beat duration d and anchor s, a hit at s + k*d
\* scores 1, a hit at s + k*d + d/2 scores 0, and the hits at s + k*d + x
\* and s + k*d - x score the same, for beats k before and after the anchor.
C20_HitAccuracySymmetric ==
  (last.op = "getHitAccuracy" /\ isPlaying) =>
    LET d == 60000 \div tempo
        s == beatStartTime
    IN \A k \in BeatsAround :
         /\ SameNumber(GetHitAccuracyValue(s + k * d), [num |-> 1, den |-> 1])
         /\ d % 2 = 0 => GetHitAccuracyValue(s + k * d + d \div 2).num = 0
         /\ \A x \in Offsets(d) :
              SameNumber(GetHitAccuracyValue(s + k * d + x),
                         GetHitAccuracyValue(s + k * d - x))

\* a hit before the anchor has been scored, neither 0 nor 1, on a running
\* metronome
C20_Witness ==
  /\ last.op = "getHitAccuracy"
  /\ isPlaying
  /\ last.arg < beatStartTime
  /\ last.value.num \in 1..(last.value.den - 1)
  /\ SameNumber(last.value,
                GetHitAccuracyValue(2 * beatStartTime - last.arg))

\* C14: when the toggle is switched on and start() fails, the host is left
\* with the toggle off: MetronomeUI.enabled and isMetronomeActive are false,
\* and hits are drawn only while the metronome has its interval running.
C14_FailedToggleLeavesOff ==
  /\ (last.op = "start" /\ last.outcome = "throw") =>
       (~ui.enabled /\ ~app.isMetronomeActive)
  /\ ui.hitMarkers # <<>> => timerID # 0

\* the number 1, as a fraction
One == [num |-> 1, den |-> 1]

\* C21: with the wall clock and the audio clock running at the same rate, a
\* hit at the target time of a tick that fires in the current run scores 1;
\* shown in a run started with a tempo in [30, 300].
C21_HitOnDispatchedBeatScoresOne ==
  (/\ last.op = "tick"
   /\ ticked # <<>>
   /\ isPlaying
   /\ audioContext = "running"
   /\ runInfo.tempo \in MinTempo..MaxTempo
   /\ ticked[1].run = run) =>
    SameNumber(GetHitAccuracyValue(ticked[1].time + (now - currentTime)), One)

\* C22: the fill colour of a hit marker, the feedback message and the
\* statistics use the same four bands: a marker is drawn in the colour of
\* the poor band only if its score is in the poor band of the message.
C22_SameBands ==
  \A i \in 1..Len(ui.hitMarkers) :
    ui.hitMarkers[i].color = GetAccuracyColor(Zero) =>
      DisplayAccuracy(ui.hitMarkers[i].accuracy) = DisplayAccuracy(Zero)

\* C23: while the metronome is Running and the visualization is on, a
\* mouse press on an on-screen key is scored: a hit marker is spawned and
\* the statistics count the note.
C23_MousePressScored ==
  (/\ last.op = "mousedown"
   /\ isPlaying
   /\ app.isMetronomeActive
   /\ ui.enabled
   /\ ui.showVisualization) =>
    (ui.hitMarkers # <<>> /\ app.totalNotes > 0)

\* C24: on a frame rendered at the moment the clock equals the target time
\* of the notification a beat marker was spawned from, the marker is at the
\* hit line (wall clock and audio clock running at the same rate).
C24_MarkerArrivesOnTarget ==
  (last.op = "frame" /\ last.outcome = "ok" /\ audioContext = "running") =>
    \A i \in 1..Len(ui.beatMarkers) :
      ui.beatMarkers[i].scheduledFor + (now - currentTime) = now =>
        ui.beatMarkers[i].x = hitLineX

\* C25: the first beat marker created after a (re)start is at the hit line
\* on every rendered frame for as long as it exists.
C25_FirstMarkerPinned ==
  (last.op = "frame" /\ last.outcome = "ok") =>
    \A i \in 1..Len(ui.beatMarkers) :
      ui.beatMarkers[i].first => ui.beatMarkers[i].x = hitLineX

\* C26: after any tempo change and any canvas resize, markerSpeed is
\* (canvas width - hitLineX) / (secondsPerBeat * 60) for the current width
\* and tempo.
C26_MarkerSpeedCalibrated ==
  last.op \in {"setTempo", "resize"} =>
    ui.markerSpeed = MarkerSpeed(ui.width, ui.secondsPerBeat)

\* C27: a hit marker moves by the same displacement on every frame of its
\* life: the displacement of a rendered frame, times the number of frames
\* the marker has lived, is the distance it has covered so far.
C27_HitMarkerSpeedConstant ==
  [][(last'.op = "frame" /\ last'.outcome = "ok" /\ ~IsNaN(ui.markerSpeed)) =>
       \A i \in 1..Len(ui.hitMarkers) :
         ui.hitMarkers[i].age * ui.markerSpeed
           = hitLineX - ui.hitMarkers[i].x]_vars

\* C28: a hit marker is created at the hit line with opacity 1; every
\* rendered frame lowers its opacity by one step, never below 0; no marker
\* stays once it is off-screen or has opacity 0; while frames render, every
\* hit marker is eventually removed.
C28_HitMarkerFadesAway ==
  /\ [](\A i \in 1..Len(ui.hitMarkers) :
          LET m == ui.hitMarkers[i]
          IN /\ m.opacity = fullOpacity - m.age * fadePerFrame
             /\ m.opacity > 0
             /\ m.age = 0 => m.x = hitLineX
             /\ m.x > -offScreen)
  /\ (ui.hitMarkers # <<>>) ~> (ui.hitMarkers = <<>> \/ ~ui.showVisualization)

\* a hit marker that stayed at the hit line is at its last step of opacity
C28_Witness ==
  /\ last.op = "frame"
  /\ ui.showVisualization
  /\ ui.hitMarkers # <<>>
  /\ ui.hitMarkers[1].opacity = fadePerFrame
  /\ ui.hitMarkers[1].age > 0

\* C29: animation frames remove every beat marker that has left the
\* visible region, whether the visualization is shown or hidden: after a
\* frame no marker remains whose position is off-screen.
C29_BeatMarkersRemoved ==
  last.op = "frame" =>
    \A i \in 1..Len(ui.beatMarkers) :
      ~IsNaN(ui.beatMarkers[i].targetTime) =>
        InterpolatedX(ui.width, ui.beatMarkers[i]) > -offScreen

\* C30: resetVisualization(enabled), as the toggle handler calls it, removes
\* every beat marker and hit marker; with enabled true it sets firstBeat (the
\* marker start() then adds is at the hit line) and recomputes markerSpeed;
\* with enabled false it leaves firstBeat and markerSpeed as they were.
C30_ResetVisualization ==
  [][/\ last'.op = "stop" =>
          /\ ui'.beatMarkers = <<>>
          /\ ui'.hitMarkers = <<>>
          /\ ui'.firstBeat = ui.firstBeat
          /\ ui'.markerSpeed = ui.markerSpeed
     /\ last'.op = "start" =>
          /\ ui'.hitMarkers = <<>>
          /\ Len(ui'.beatMarkers) = Len(emitted')
          /\ ui'.markerSpeed = MarkerSpeed(ui.width, ui.secondsPerBeat)
          /\ IF emitted' = <<>> THEN ui'.firstBeat
             ELSE /\ ui'.beatMarkers[1].x = hitLineX
                  /\ ui'.beatMarkers[1].first]_vars

\* the toggle has been switched off after a hit was drawn
C30_Witness ==
  /\ last.op = "stop"
  /\ ~ui.enabled
  /\ app.totalNotes > 0
  /\ ui.hitMarkers = <<>>
  /\ ui.beatMarkers = <<>>

\* C33: every armed tick timeout that has neither fired nor been cleared has
\* its handle in scheduledTicks, so that stop() can clear it.
C33_PendingHandlesTracked ==
  \A t \in timeouts : t.id \in Range(scheduledTicks)

\* the handles the last step armed, in the order it armed them
NewHandles == [i \in 1..(nextHandle' - nextHandle) |-> nextHandle + i - 1]

\* the newest n elements of a sequence
Newest(seq, n) == SubSeq(seq, Max(1, Len(seq) - n + 1), Len(seq))

\* C34: scheduledTicks never holds more than 20 handles, however many beats
\* one pass arms; a pass leaves in it the newest 20 of the handles it held
\* followed by the handles the pass armed: the oldest are the ones discarded.
C34_PendingHandlesCapped ==
  /\ [](Len(scheduledTicks) <= MaxScheduledTicks)
  /\ [][last'.op = "scheduler" =>
          scheduledTicks' = Newest(scheduledTicks \o NewHandles,
                                   MaxScheduledTicks)]_vars

\* a pass has armed more ticks than the list may hold
C34_Witness ==
  /\ last.op = "scheduler"
  /\ Len(emitted) > MaxScheduledTicks
  /\ Len(scheduledTicks) = MaxScheduledTicks

\* C35: while the metronome is Stopped no scheduling pass runs; a step that
\* is not a start() emits no onBeatScheduled notification and leaves
\* nextTickTime; currentBeat changes only by setTimeSignature resetting it.
C35_NothingScheduledWhileStopped ==
  [][~isPlaying =>
       /\ last'.op # "scheduler"
       /\ last'.op # "start" =>
            /\ emitted' = <<>>
            /\ nextTickTime' = nextTickTime
            /\ \/ currentBeat' = currentBeat
               \/ last'.op = "setTimeSignature" /\ currentBeat' = 0]_vars

\* stopped after a run, the clock has advanced and a pass would be behind
C35_Witness ==
  /\ ~isPlaying
  /\ run > 0
  /\ last.op = "advance"
  /\ audioContext = "running"
  /\ Behind(nextTickTime, currentTime)
  /\ now >= beatStartTime + 2 * lookahead

\* C36: the interval exists exactly when the metronome is Running (timerID
\* is non-null exactly when isPlaying is true) and at most one interval is
\* alive.
C36_TimerIffPlaying ==
  /\ (timerID # 0) <=> isPlaying
  /\ Cardinality(intervals) <= 1

\* C37: currentBeat is in 0..timeSignature-1 and every onBeatScheduled and
\* onTick notification carries a beat number between 1 and the time
\* signature in force when it is delivered.
\* Stated for runs started and kept at tempos of the data model, 30 to 300.
C37_BeatNumbersInSignature ==
  (tempo \in MinTempo..MaxTempo /\ runInfo.tempo \in MinTempo..MaxTempo) =>
    /\ currentBeat \in 0..(timeSignature - 1)
    /\ \A i \in 1..Len(emitted) : emitted[i].beatNumber \in 1..timeSignature
    /\ \A i \in 1..Len(ticked) : ticked[i].beatNumber \in 1..timeSignature

\* C32: every scheduling pass returns, and when it has returned nextTickTime
\* is at or beyond currentTime + scheduleAheadTime.
C32_PassReturnsAhead ==
  last.op = "scheduler" =>
    /\ last.outcome = "ok"
    /\ nextTickTime >= currentTime + scheduleAheadTime

\* C31: every tempo the UI passes to setTempo lies in 40..240, so the clamp
\* of setTempo stores it as it is, and after a UI tempo change the UI's
\* secondsPerBeat is 60 / the tempo the metronome has stored.
C31_UiTempoInRange ==
  last.op = "setTempo" =>
    /\ last.arg \in UiMinTempo..UiMaxTempo
    /\ tempo = last.arg
    /\ ui.secondsPerBeat * tempo = 60000

\* the counters of the rhythm statistics
Counters(a) == <<a.perfectHits, a.goodHits, a.missedHits, a.totalNotes>>

\* C38: perfectHits + goodHits + missedHits = totalNotes; no counter ever
\* decreases; a counter changes only on an in-range MIDI note-on received
\* while isMetronomeActive is true.
C38_StatisticsAddUp ==
  /\ [](app.perfectHits + app.goodHits + app.missedHits = app.totalNotes)
  /\ [][/\ \A i \in 1..4 : Counters(app')[i] >= Counters(app)[i]
        /\ Counters(app') # Counters(app) =>
             /\ last'.op = "noteOn"
             /\ last'.arg \in startNote..endNote
             /\ app.isMetronomeActive]_vars

\* hits of two different bands have been counted
C38_Witness ==
  /\ last.op = "noteOn"
  /\ app.goodHits > 0
  /\ app.missedHits > 0

\* the in-range notes the app holds active
InRangeNotes(a) == {n \in a.activeNotes : n >= startNote /\ n <= endNote}

\* C39: the keys KeyboardUI shows active are the in-range notes in
\* activeNotes of the app; a MIDI note outside the keyboard changes neither
\* set; stopping a note that is not active changes nothing.
C39_KeysMatchNotes ==
  /\ [](app.activeKeys = InRangeNotes(app))
  /\ [][/\ (last'.op \in {"noteOn", "noteOff"}
             /\ last'.arg \notin startNote..endNote) => app' = app
        /\ (last'.op \in {"noteOff", "mouseup"}
             /\ last'.arg \notin app.activeNotes) => app' = app]_vars

\* a note started from the MIDI controller, and scored, has been released
\* with the mouse
C39_Witness ==
  /\ last.op = "mouseup"
  /\ app.totalNotes > 0
  /\ app.activeNotes = {}
  /\ app.activeKeys = {}

====
